---- MODULE Spec2Model ----
(***************************************************************************)
(* DonorPayouts (src/src/lib.rs): the donor ledger, the airdrop records    *)
(* and the two reward flows (NFT mint, token transfer) with their promise  *)
(* callbacks.                                                              *)
(*                                                                         *)
(* A call that panics is rolled back by the host: it changes no contract  *)
(* state and schedules no promise.  Its panic message is kept in last.err. *)
(* U128 amounts are modelled below 2^128 (no sum in the model comes near   *)
(* it); NearToken amounts are counted in milliNEAR.                        *)
(***************************************************************************)
EXTENDS Integers, Sequences, FiniteSets, Bags, TLC

VARIABLES donors, airdrop_records, total_distributed, pending, last,
          transferred, minted

vars == <<donors, airdrop_records, total_distributed, pending, last,
          transferred, minted>>

\* the contract state of struct DonorPayouts
ledger == <<donors, airdrop_records, total_distributed>>

(***************************************************************************)
(* Bounds of the model and the inputs the calls are drawn from.            *)
(***************************************************************************)
MaxRecords == 2
MaxInFlight == 1
MaxDeposits == 1
MaxTransferred == 2
MaxMinted == 1

admin == "admin"
Users == {"alice", "bob"}
Callers == {admin} \cup Users

\* alice is tried with every kind of airdrop; bob only receives token airdrops of 1
Amounts(recipient) == IF recipient = "alice" THEN {0, 1} ELSE {1}
ChannelIds(recipient) == IF recipient = "alice" THEN {"", "ch1"} ELSE {""}
SelectChannelIds == {"ch2"}
Selectors == {"alice"}
Donators == {"alice"}

\* NearToken::from_millinear(1250), in milliNEAR
storage_deposit_amount == 1250
Deposits == {0, storage_deposit_amount}
AirdropDeposits == {storage_deposit_amount}
FlowDeposits == {storage_deposit_amount - 1, storage_deposit_amount}

LongCampaignId == "aaaaaaaaaaaaaaaaaaaaaaaaaaaaaaaaaaaaaaaaaaaaaaaaaaaaaaaaaaaaaaaaa"

Direct == [tag |-> "Direct", id |-> ""]
Campaign(campaign_id) == [tag |-> "Campaign", id |-> campaign_id]
Project(project_id) == [tag |-> "Project", id |-> project_id]
Pot(pot_id) == [tag |-> "Pot", id |-> pot_id]

\* the donation types each call is tried with; Direct and Campaign("c1") are valid
AirdropDonationTypes == {Direct, Campaign(LongCampaignId), Project(""), Pot("p")}
DonationDonationTypes == {Direct, Project("")}
SelectDonationTypes == {Campaign("c1"), Campaign(LongCampaignId)}

\* results a promise can carry: bytes of the nft_mint result, text of storage_balance_of
MintResults == {<<116, 255>>}
BalanceResults == {"null", "{\"total\":\"1\"}", ""}
ResultCounts == {0, 1, 2}

(***************************************************************************)
(* Data types                                                              *)
(***************************************************************************)
Token == [tag |-> "Token", channel_id |-> "", token_id |-> <<>>]
NFT(channel_id, token_id) == [tag |-> "NFT", channel_id |-> channel_id, token_id |-> token_id]

AirdropRecord(recipient, amount, reward_type, donation_type) ==
    [recipient |-> recipient, amount |-> amount, paid |-> FALSE,
     reward_type |-> reward_type, donation_type |-> donation_type]

NewDonor(wallet_id) ==
    [wallet_id |-> wallet_id, donation_amount |-> 0, airdrop_amount |-> 0,
     paid |-> FALSE, reward_types |-> <<>>, donation_types |-> <<>>]

Contains(seq, x) == \E i \in 1..Len(seq) : seq[i] = x

PushIfAbsent(seq, x) == IF Contains(seq, x) THEN seq ELSE Append(seq, x)

\* UnorderedMap<AccountId, Donor>: the values in insertion order, keyed by wallet_id
HasDonor(ds, id) == \E i \in 1..Len(ds) : ds[i].wallet_id = id

DonorIndex(ds, id) == CHOOSE i \in 1..Len(ds) : ds[i].wallet_id = id

GetDonor(ds, id) == ds[DonorIndex(ds, id)]

\* GetOrNew that forgets the stored donor and always starts a fresh one
GetOrNew_fresh(ds, id) == NewDonor(id)

GetOrNew(ds, id) == IF HasDonor(ds, id) THEN GetDonor(ds, id) ELSE NewDonor(id)

Insert(ds, id, donor) ==
    IF HasDonor(ds, id) THEN [ds EXCEPT ![DonorIndex(ds, id)] = donor]
    ELSE Append(ds, donor)

\* ValidateDonationType without the bound on the length of campaign_id
ValidateDonationType_any_length(donation_type) ==
    CASE donation_type.tag = "Project" ->
            IF donation_type.id # "" THEN "" ELSE "Project ID must not be empty"
      [] donation_type.tag = "Pot" ->
            IF Len(donation_type.id) >= 2 /\ Len(donation_type.id) <= 64 THEN ""
            ELSE "Invalid pot_id"
      [] OTHER -> ""

\* the match on donation_type at the head of every call that takes one
ValidateDonationType(donation_type) ==
    CASE donation_type.tag = "Campaign" ->
            IF Len(donation_type.id) <= 64 THEN ""
            ELSE "Campaign ID must be 64 characters or less"
      [] donation_type.tag = "Project" ->
            IF donation_type.id # "" THEN "" ELSE "Project ID must not be empty"
      [] donation_type.tag = "Pot" ->
            IF Len(donation_type.id) >= 2 /\ Len(donation_type.id) <= 64 THEN ""
            ELSE "Invalid pot_id"
      [] OTHER -> ""

\* find_map over reward_types: the positions holding an NFT reward type
NFTPositions(donor) == {i \in 1..Len(donor.reward_types) : donor.reward_types[i].tag = "NFT"}

HasNFT(donor) == NFTPositions(donor) # {}

Min(S) == CHOOSE x \in S : \A y \in S : x <= y

\* FirstMatch that keeps scanning and stops at the last hit
FirstMatch_last(hits) == CHOOSE x \in hits : \A y \in hits : x >= y

\* a scan from position 0 that stops at its first hit
FirstMatch(hits) == Min(hits)

FirstNFTChannel(donor) == donor.reward_types[FirstMatch(NFTPositions(donor))].channel_id

\* String::from_utf8_lossy on bytes that are ASCII or 0xFF: 0xFF becomes U+FFFD
FromUtf8Lossy(bytes) == [i \in 1..Len(bytes) |-> IF bytes[i] < 128 THEN bytes[i] ELSE 65533]

\* serde_json::from_slice on the storage_balance_of result
ParseBalance(text) ==
    CASE text = "null" -> "Null"
      [] text = "" -> "ParseError"
      [] OTHER -> "Object"

Call(method, signer, amount, deposit, channel_id) ==
    [method |-> method, signer |-> signer, amount |-> amount,
     deposit |-> deposit, channel_id |-> channel_id]

Schedule(call) == pending (+) SetToBag({call})

Resolve(call) == pending (-) SetToBag({call})

Returned(op, who, log) == [op |-> op, err |-> "", log |-> log]

\* a panic: the host discards every state change of the call
Panicked(op, who, err) ==
    /\ last' = [op |-> op, err |-> err, log |-> ""]
    /\ UNCHANGED <<donors, airdrop_records, total_distributed, pending, transferred, minted>>

Init ==
    /\ donors = <<>>
    /\ airdrop_records = <<>>
    /\ total_distributed = 0
    /\ pending = EmptyBag
    /\ last = [op |-> "new", err |-> "", log |-> ""]
    /\ transferred = [u \in Users |-> 0]
    /\ minted = [u \in Users |-> 0]

(***************************************************************************)
(* Calls on the ledger                                                     *)
(***************************************************************************)
\* PushRecord that inserts at the front
PushRecord_front(records, record) == <<record>> \o records

\* airdrop_records.push(&record)
PushRecord(records, record) == Append(records, record)

\* Credited that overwrites airdrop_amount instead of adding to it
Credited_overwrite(old, reward_type, donation_type, amount, deposit) ==
    [old EXCEPT !.airdrop_amount = amount,
                !.donation_amount = @ + deposit,
                !.donation_types = PushIfAbsent(@, donation_type),
                !.reward_types = PushIfAbsent(@, reward_type)]

\* Credited that adds the Token reward type next to every reward type it adds
Credited_dual_add(old, reward_type, donation_type, amount, deposit) ==
    [old EXCEPT !.airdrop_amount = @ + amount,
                !.donation_amount = @ + deposit,
                !.donation_types = PushIfAbsent(@, donation_type),
                !.reward_types = PushIfAbsent(PushIfAbsent(@, reward_type), Token)]

\* Credited that leaves donation_amount as it was
Credited_deposit_dropped(old, reward_type, donation_type, amount, deposit) ==
    [old EXCEPT !.airdrop_amount = @ + amount,
                !.donation_types = PushIfAbsent(@, donation_type),
                !.reward_types = PushIfAbsent(@, reward_type)]

\* the donor record log_airdrop writes back
Credited(old, reward_type, donation_type, amount, deposit) ==
    [old EXCEPT !.airdrop_amount = @ + amount,
                !.donation_amount = @ + deposit,
                !.donation_types = PushIfAbsent(@, donation_type),
                !.reward_types = PushIfAbsent(@, reward_type)]

log_airdrop(caller, recipient, channel_id, donation_type, amount, deposit) ==
    LET reward_type == IF channel_id = "" THEN Token ELSE NFT(channel_id, <<>>)
        record == AirdropRecord(recipient, amount, reward_type, donation_type)
        donor == Credited(GetOrNew(donors, recipient), reward_type, donation_type,
                          amount, deposit)
    IN  IF caller # admin
        THEN Panicked("log_airdrop", recipient, "Only admin can call this function")
        ELSE IF ValidateDonationType(donation_type) # ""
        THEN Panicked("log_airdrop", recipient, ValidateDonationType(donation_type))
        ELSE /\ airdrop_records' = PushRecord(airdrop_records, record)
             /\ donors' = Insert(donors, recipient, donor)
             /\ total_distributed' = total_distributed + amount
             /\ last' = Returned("log_airdrop", recipient, "Logged airdrop")
             /\ UNCHANGED <<pending, transferred, minted>>

record_donation(signer, donation_type, deposit) ==
    LET old == GetOrNew(donors, signer)
        donor == [old EXCEPT !.donation_amount = @ + deposit,
                             !.donation_types = PushIfAbsent(@, donation_type)]
    IN  IF ~(deposit > 0)
        THEN Panicked("record_donation", signer, "Attached deposit must be greater than 0")
        ELSE IF ValidateDonationType(donation_type) # ""
        THEN Panicked("record_donation", signer, ValidateDonationType(donation_type))
        ELSE /\ donors' = Insert(donors, signer, donor)
             /\ last' = Returned("record_donation", signer, "Recorded donation")
             /\ UNCHANGED <<airdrop_records, total_distributed, pending, transferred, minted>>

\* send_nft_reward_guard without the assert on paid
send_nft_reward_guard_unpaid_unchecked(signer) ==
    IF ~HasDonor(donors, signer) THEN "Donor not found"
    ELSE IF ~HasNFT(GetDonor(donors, signer)) THEN "No NFT reward type found for donor"
    ELSE ""

\* the asserts of send_nft_reward, in the order the code makes them
send_nft_reward_guard(signer) ==
    IF ~HasDonor(donors, signer) THEN "Donor not found"
    ELSE IF GetDonor(donors, signer).paid THEN "Payout already completed"
    ELSE IF ~HasNFT(GetDonor(donors, signer)) THEN "No NFT reward type found for donor"
    ELSE ""

send_nft_reward(signer, deposit) ==
    IF send_nft_reward_guard(signer) # ""
    THEN Panicked("send_nft_reward", signer, send_nft_reward_guard(signer))
    ELSE /\ pending' = Schedule(Call("nft_mint", signer, 0, deposit,
                                     FirstNFTChannel(GetDonor(donors, signer))))
         /\ last' = Returned("send_nft_reward", signer, "Initiating NFT mint")
         /\ UNCHANGED <<donors, airdrop_records, total_distributed, transferred, minted>>

\* send_token_reward_guard without the assert on paid
send_token_reward_guard_unpaid_unchecked(signer) ==
    IF ~HasDonor(donors, signer) THEN "Donor not found"
    ELSE IF ~Contains(GetDonor(donors, signer).reward_types, Token)
    THEN "Donor reward type does not include Token"
    ELSE IF ~(GetDonor(donors, signer).airdrop_amount > 0) THEN "No tokens to payout"
    ELSE ""

\* send_token_reward_guard without the assert on airdrop_amount
send_token_reward_guard_amount_unchecked(signer) ==
    IF ~HasDonor(donors, signer) THEN "Donor not found"
    ELSE IF GetDonor(donors, signer).paid THEN "Payout already completed"
    ELSE IF ~Contains(GetDonor(donors, signer).reward_types, Token)
    THEN "Donor reward type does not include Token"
    ELSE ""

\* the asserts of send_token_reward, in the order the code makes them
send_token_reward_guard(signer) ==
    IF ~HasDonor(donors, signer) THEN "Donor not found"
    ELSE IF GetDonor(donors, signer).paid THEN "Payout already completed"
    ELSE IF ~Contains(GetDonor(donors, signer).reward_types, Token)
    THEN "Donor reward type does not include Token"
    ELSE IF ~(GetDonor(donors, signer).airdrop_amount > 0) THEN "No tokens to payout"
    ELSE ""

send_token_reward(signer, deposit) ==
    IF send_token_reward_guard(signer) # ""
    THEN Panicked("send_token_reward", signer, send_token_reward_guard(signer))
    ELSE /\ pending' = Schedule(Call("storage_balance_of", signer,
                                     GetDonor(donors, signer).airdrop_amount, deposit, ""))
         /\ last' = Returned("send_token_reward", signer, "Initiating token reward process")
         /\ UNCHANGED <<donors, airdrop_records, total_distributed, transferred, minted>>

(***************************************************************************)
(* Promise callbacks.  A callback runs with count = 1 when the promise it  *)
(* was chained to resolves, and that promise leaves the pending bag; with  *)
(* any other count it is a bare call of the callback by the contract       *)
(* account, which resolves nothing.                                        *)
(***************************************************************************)
Resumed(call, count) == IF count = 1 THEN Resolve(call) ELSE pending

\* what the two external contracts did: a resolved ft_transfer or nft_mint that
\* succeeded has paid out, whatever the callback then does
External(call, count, ok) ==
    /\ transferred' = IF count = 1 /\ ok /\ call.method = "ft_transfer"
                      THEN [transferred EXCEPT ![call.signer] = @ + call.amount]
                      ELSE transferred
    /\ minted' = IF count = 1 /\ ok /\ call.method = "nft_mint"
                 THEN [minted EXCEPT ![call.signer] = @ + 1]
                 ELSE minted

CallbackPanicked(op, call, count, ok, err) ==
    /\ last' = [op |-> op, err |-> err, log |-> ""]
    /\ pending' = Resumed(call, count)
    /\ External(call, count, ok)
    /\ UNCHANGED <<donors, airdrop_records, total_distributed>>

perform_ft_transfer(receiver_id, amount) == Call("ft_transfer", receiver_id, amount, 0, "")

\* on_storage_check_callback without the assert on attached_deposit
on_storage_check_callback_deposit_unchecked(call, count, ok, text) ==
    LET op == "on_storage_check_callback" IN
    IF count # 1 THEN CallbackPanicked(op, call, count, ok, "Expected one promise result")
    ELSE IF ~ok THEN CallbackPanicked(op, call, count, ok, "Storage balance check failed")
    ELSE IF ParseBalance(text) = "ParseError"
    THEN CallbackPanicked(op, call, count, ok, "Failed to parse storage_balance_of result")
    ELSE IF ParseBalance(text) # "Null"
    THEN /\ pending' = Resolve(call) (+) SetToBag({perform_ft_transfer(call.signer, call.amount)})
         /\ last' = Returned(op, call.signer, "Initiating token transfer")
         /\ External(call, count, ok)
         /\ UNCHANGED <<donors, airdrop_records, total_distributed>>
    ELSE /\ pending' = Resolve(call) (+)
                SetToBag({Call("storage_deposit", call.signer, call.amount,
                               storage_deposit_amount, "")})
         /\ last' = Returned(op, call.signer, "Account is not registered, registering now")
         /\ External(call, count, ok)
         /\ UNCHANGED <<donors, airdrop_records, total_distributed>>

\* on_storage_check_callback that answers an unregistered account with ft_transfer
\* straight away, without storage_deposit
on_storage_check_callback_skips_register(call, count, ok, text) ==
    LET op == "on_storage_check_callback" IN
    IF count # 1 THEN CallbackPanicked(op, call, count, ok, "Expected one promise result")
    ELSE IF ~ok THEN CallbackPanicked(op, call, count, ok, "Storage balance check failed")
    ELSE IF ParseBalance(text) = "ParseError"
    THEN CallbackPanicked(op, call, count, ok, "Failed to parse storage_balance_of result")
    ELSE IF ParseBalance(text) # "Null"
    THEN /\ pending' = Resolve(call) (+) SetToBag({perform_ft_transfer(call.signer, call.amount)})
         /\ last' = Returned(op, call.signer, "Initiating token transfer")
         /\ External(call, count, ok)
         /\ UNCHANGED <<donors, airdrop_records, total_distributed>>
    ELSE IF ~(call.deposit >= storage_deposit_amount)
    THEN CallbackPanicked(op, call, count, ok,
            "Insufficient deposit for storage registration, need at least 0.00125 NEAR")
    ELSE /\ pending' = Resolve(call) (+) SetToBag({perform_ft_transfer(call.signer, call.amount)})
         /\ last' = Returned(op, call.signer, "Account is not registered, registering now")
         /\ External(call, count, ok)
         /\ UNCHANGED <<donors, airdrop_records, total_distributed>>

on_storage_check_callback(call, count, ok, text) ==
    LET op == "on_storage_check_callback" IN
    IF count # 1 THEN CallbackPanicked(op, call, count, ok, "Expected one promise result")
    ELSE IF ~ok THEN CallbackPanicked(op, call, count, ok, "Storage balance check failed")
    ELSE IF ParseBalance(text) = "ParseError"
    THEN CallbackPanicked(op, call, count, ok, "Failed to parse storage_balance_of result")
    ELSE IF ParseBalance(text) # "Null"
    THEN /\ pending' = Resolve(call) (+) SetToBag({perform_ft_transfer(call.signer, call.amount)})
         /\ last' = Returned(op, call.signer, "Initiating token transfer")
         /\ External(call, count, ok)
         /\ UNCHANGED <<donors, airdrop_records, total_distributed>>
    ELSE IF ~(call.deposit >= storage_deposit_amount)
    THEN CallbackPanicked(op, call, count, ok,
            "Insufficient deposit for storage registration, need at least 0.00125 NEAR")
    ELSE /\ pending' = Resolve(call) (+)
                SetToBag({Call("storage_deposit", call.signer, call.amount,
                               storage_deposit_amount, "")})
         /\ last' = Returned(op, call.signer, "Account is not registered, registering now")
         /\ External(call, count, ok)
         /\ UNCHANGED <<donors, airdrop_records, total_distributed>>

on_storage_deposit_callback(call, count, ok) ==
    LET op == "on_storage_deposit_callback" IN
    IF count # 1 THEN CallbackPanicked(op, call, count, ok, "Expected one promise result")
    ELSE IF ~ok THEN CallbackPanicked(op, call, count, ok, "Storage deposit failed")
    ELSE /\ pending' = Resolve(call) (+) SetToBag({perform_ft_transfer(call.signer, call.amount)})
         /\ last' = Returned(op, call.signer, "Initiating token transfer")
         /\ External(call, count, ok)
         /\ UNCHANGED <<donors, airdrop_records, total_distributed>>

\* NFTMatches without the test on the reward type
NFTMatches_any_kind(records, donor_id) ==
    {i \in 1..Len(records) : /\ records[i].recipient = donor_id
                             /\ ~records[i].paid}

\* the records the scan of on_nft_mint_callback stops at
NFTMatches(records, donor_id) ==
    {i \in 1..Len(records) : /\ records[i].recipient = donor_id
                             /\ records[i].reward_type.tag = "NFT"
                             /\ ~records[i].paid}

\* position(..) of the donor's reward type for channel_id, replaced or else pushed
SetRewardType(reward_types, channel_id, new_reward_type) ==
    LET hits == {i \in 1..Len(reward_types) : /\ reward_types[i].tag = "NFT"
                                              /\ reward_types[i].channel_id = channel_id}
    IN  IF hits # {} THEN [reward_types EXCEPT ![FirstMatch(hits)] = new_reward_type]
        ELSE Append(reward_types, new_reward_type)

\* the arm PromiseResult::Successful(result) of on_nft_mint_callback
nft_mint_successful(call, count, ok, bytes) ==
    LET op == "on_nft_mint_callback"
        donor_id == call.signer
        donor == GetDonor(donors, donor_id)
        channel_id == FirstNFTChannel(donor)
        token_id == FromUtf8Lossy(bytes)
        new_reward_type == NFT(channel_id, token_id)
        matches == NFTMatches(airdrop_records, donor_id)
    IN  /\ pending' = Resolve(call)
        /\ External(call, count, ok)
        /\ UNCHANGED total_distributed
        /\ IF matches # {}
           THEN /\ airdrop_records' =
                       [airdrop_records EXCEPT ![FirstMatch(matches)].reward_type = new_reward_type,
                                               ![FirstMatch(matches)].paid = TRUE]
                /\ donors' = Insert(donors, donor_id,
                       [donor EXCEPT !.reward_types =
                                         SetRewardType(@, channel_id, new_reward_type),
                                     !.paid = TRUE])
                /\ last' = Returned(op, donor_id, "Successfully updated airdrop record")
           ELSE /\ last' = Returned(op, donor_id, "No matching airdrop record found")
                /\ UNCHANGED <<donors, airdrop_records>>

\* nft_mint_failed that settles as if the mint had succeeded
nft_mint_failed_settles(call, count, ok, bytes) == nft_mint_successful(call, count, ok, bytes)

\* nft_mint_failed that schedules the same nft_mint again
nft_mint_failed_retries(call, count, ok, bytes) ==
    /\ last' = Returned("on_nft_mint_callback", call.signer, "NFT mint failed")
    /\ pending' = Resolve(call) (+) SetToBag({call})
    /\ External(call, count, ok)
    /\ UNCHANGED <<donors, airdrop_records, total_distributed>>

\* the arm PromiseResult::Failed of on_nft_mint_callback
nft_mint_failed(call, count, ok, bytes) ==
    /\ last' = Returned("on_nft_mint_callback", call.signer, "NFT mint failed")
    /\ pending' = Resolve(call)
    /\ External(call, count, ok)
    /\ UNCHANGED <<donors, airdrop_records, total_distributed>>

on_nft_mint_callback(call, count, ok, bytes) ==
    LET op == "on_nft_mint_callback"
        donor_id == call.signer
    IN
    IF count # 1
    THEN /\ last' = Returned(op, donor_id, "Unexpected number of promise results")
         /\ pending' = Resumed(call, count)
         /\ External(call, count, ok)
         /\ UNCHANGED <<donors, airdrop_records, total_distributed>>
    ELSE IF ~HasDonor(donors, donor_id) THEN CallbackPanicked(op, call, count, ok, "Donor not found")
    ELSE IF ~HasNFT(GetDonor(donors, donor_id))
    THEN CallbackPanicked(op, call, count, ok, "No NFT reward type")
    ELSE IF ok THEN nft_mint_successful(call, count, ok, bytes)
    ELSE nft_mint_failed(call, count, ok, bytes)

\* TokenMatches without the test on the recipient
TokenMatches_any_recipient(records, donor_id, amount) ==
    {i \in 1..Len(records) : /\ records[i].amount = amount
                             /\ records[i].reward_type = Token
                             /\ ~records[i].paid}

\* the records the scan of on_token_transfer_callback stops at
TokenMatches(records, donor_id, amount) ==
    {i \in 1..Len(records) : /\ records[i].recipient = donor_id
                             /\ records[i].amount = amount
                             /\ records[i].reward_type = Token
                             /\ ~records[i].paid}

\* on_token_transfer_callback without the check of promise_results_count
on_token_transfer_callback_count_unchecked(call, count, ok) ==
    LET op == "on_token_transfer_callback"
        donor_id == call.signer
        amount == call.amount
    IN
    IF ~ok
    THEN /\ last' = Returned(op, donor_id, "Token transfer failed")
         /\ pending' = Resumed(call, count)
         /\ External(call, count, ok)
         /\ UNCHANGED <<donors, airdrop_records, total_distributed>>
    ELSE IF ~HasDonor(donors, donor_id) THEN CallbackPanicked(op, call, count, ok, "Donor not found")
    ELSE LET matches == TokenMatches(airdrop_records, donor_id, amount)
         IN  /\ pending' = Resumed(call, count)
             /\ External(call, count, ok)
             /\ UNCHANGED total_distributed
             /\ IF matches # {}
                THEN /\ airdrop_records' = [airdrop_records EXCEPT ![FirstMatch(matches)].paid = TRUE]
                     /\ donors' = Insert(donors, donor_id,
                                         [GetDonor(donors, donor_id) EXCEPT !.paid = TRUE])
                     /\ last' = Returned(op, donor_id, "Successfully transferred")
                ELSE /\ last' = Returned(op, donor_id, "No matching airdrop record found")
                     /\ UNCHANGED <<donors, airdrop_records>>

on_token_transfer_callback(call, count, ok) ==
    LET op == "on_token_transfer_callback"
        donor_id == call.signer
        amount == call.amount
    IN
    IF count # 1
    THEN /\ last' = Returned(op, donor_id, "Unexpected number of promise results")
         /\ pending' = Resumed(call, count)
         /\ External(call, count, ok)
         /\ UNCHANGED <<donors, airdrop_records, total_distributed>>
    ELSE IF ~ok
    THEN /\ last' = Returned(op, donor_id, "Token transfer failed")
         /\ pending' = Resolve(call)
         /\ External(call, count, ok)
         /\ UNCHANGED <<donors, airdrop_records, total_distributed>>
    ELSE IF ~HasDonor(donors, donor_id) THEN CallbackPanicked(op, call, count, ok, "Donor not found")
    ELSE LET matches == TokenMatches(airdrop_records, donor_id, amount)
         IN  /\ pending' = Resolve(call)
             /\ External(call, count, ok)
             /\ UNCHANGED total_distributed
             /\ IF matches # {}
                THEN /\ airdrop_records' = [airdrop_records EXCEPT ![FirstMatch(matches)].paid = TRUE]
                     /\ donors' = Insert(donors, donor_id,
                                         [GetDonor(donors, donor_id) EXCEPT !.paid = TRUE])
                     /\ last' = Returned(op, donor_id, "Successfully transferred")
                ELSE /\ last' = Returned(op, donor_id, "No matching airdrop record found")
                     /\ UNCHANGED <<donors, airdrop_records>>

\* mark_payout_complete whose scan has no break: it marks every unpaid record of the donor
mark_payout_complete_no_break(caller, donor_id) ==
    LET op == "mark_payout_complete" IN
    IF caller # admin THEN Panicked(op, donor_id, "Only admin can call this function")
    ELSE IF ~HasDonor(donors, donor_id) THEN Panicked(op, donor_id, "Donor not found")
    ELSE IF GetDonor(donors, donor_id).paid THEN Panicked(op, donor_id, "Payout already completed")
    ELSE /\ donors' = Insert(donors, donor_id, [GetDonor(donors, donor_id) EXCEPT !.paid = TRUE])
         /\ airdrop_records' =
                [i \in 1..Len(airdrop_records) |->
                    IF airdrop_records[i].recipient = donor_id
                    THEN [airdrop_records[i] EXCEPT !.paid = TRUE]
                    ELSE airdrop_records[i]]
         /\ last' = Returned(op, donor_id, "Marked payout complete")
         /\ UNCHANGED <<total_distributed, pending, transferred, minted>>

mark_payout_complete(caller, donor_id) ==
    LET op == "mark_payout_complete"
        unpaid == {i \in 1..Len(airdrop_records) : /\ airdrop_records[i].recipient = donor_id
                                                   /\ ~airdrop_records[i].paid}
    IN
    IF caller # admin THEN Panicked(op, donor_id, "Only admin can call this function")
    ELSE IF ~HasDonor(donors, donor_id) THEN Panicked(op, donor_id, "Donor not found")
    ELSE IF GetDonor(donors, donor_id).paid THEN Panicked(op, donor_id, "Payout already completed")
    ELSE /\ donors' = Insert(donors, donor_id, [GetDonor(donors, donor_id) EXCEPT !.paid = TRUE])
         /\ airdrop_records' = IF unpaid # {}
                               THEN [airdrop_records EXCEPT ![FirstMatch(unpaid)].paid = TRUE]
                               ELSE airdrop_records
         /\ last' = Returned(op, donor_id, "Marked payout complete")
         /\ UNCHANGED <<total_distributed, pending, transferred, minted>>

\* select_nft_reward without the assert on paid
select_nft_reward_unpaid_unchecked(signer, channel_id, donation_type) ==
    LET op == "select_nft_reward"
        new_reward_type == NFT(channel_id, <<>>)
    IN
    IF ~HasDonor(donors, signer) THEN Panicked(op, signer, "Donor not found")
    ELSE IF ~Contains(GetDonor(donors, signer).reward_types, Token)
    THEN Panicked(op, signer, "Donor reward type does not include Token")
    ELSE IF ValidateDonationType(donation_type) # ""
    THEN Panicked(op, signer, ValidateDonationType(donation_type))
    ELSE /\ donors' = Insert(donors, signer,
                [GetDonor(donors, signer) EXCEPT
                    !.donation_types = PushIfAbsent(@, donation_type),
                    !.reward_types = PushIfAbsent(@, new_reward_type)])
         /\ last' = Returned(op, signer, "Donor selected NFT reward")
         /\ UNCHANGED <<airdrop_records, total_distributed, pending, transferred, minted>>

select_nft_reward(signer, channel_id, donation_type) ==
    LET op == "select_nft_reward"
        new_reward_type == NFT(channel_id, <<>>)
    IN
    IF ~HasDonor(donors, signer) THEN Panicked(op, signer, "Donor not found")
    ELSE IF ~Contains(GetDonor(donors, signer).reward_types, Token)
    THEN Panicked(op, signer, "Donor reward type does not include Token")
    ELSE IF GetDonor(donors, signer).paid THEN Panicked(op, signer, "Payout already completed")
    ELSE IF ValidateDonationType(donation_type) # ""
    THEN Panicked(op, signer, ValidateDonationType(donation_type))
    ELSE /\ donors' = Insert(donors, signer,
                [GetDonor(donors, signer) EXCEPT
                    !.donation_types = PushIfAbsent(@, donation_type),
                    !.reward_types = PushIfAbsent(@, new_reward_type)])
         /\ last' = Returned(op, signer, "Donor selected NFT reward")
         /\ UNCHANGED <<airdrop_records, total_distributed, pending, transferred, minted>>

(***************************************************************************)
(* The next-state relation.  Any account may send any call at any time and *)
(* a pending promise resolves at any time, with either outcome.            *)
(***************************************************************************)
InFlight(id) == \E call \in BagToSet(pending) : call.signer = id

\* the bounds of the model on what a call may add
RoomForRecord == Len(airdrop_records) < MaxRecords

RoomForDeposit(id, deposit) ==
    GetOrNew(donors, id).donation_amount + deposit
        <= (MaxRecords + MaxDeposits) * storage_deposit_amount

RoomForFlow == BagCardinality(pending) < MaxInFlight

\* the external contracts stop paying an account out at these totals
Outcomes(call) ==
    IF \/ call.method = "ft_transfer" /\ ~(transferred[call.signer] < MaxTransferred)
       \/ call.method = "nft_mint" /\ ~(minted[call.signer] < MaxMinted)
    THEN {FALSE} ELSE BOOLEAN

Methods(method) == {call \in BagToSet(pending) : call.method = method}

\* the arguments of a bare call of a callback
BareCalls(method) == {Call(method, id, amount, 0, "") : id \in Users, amount \in {1}}

Resumptions(method) ==
    {<<call, 1>> : call \in Methods(method)}
        \cup {<<call, count>> : call \in BareCalls(method), count \in ResultCounts \ {1}}

\* the host of section 5 sends no call about a donor while a flow of that donor is in flight
Admitted(serial, id) == serial => ~InFlight(id)

LogAirdrop(serial) ==
    \E caller \in Callers, recipient \in Users, donation_type \in AirdropDonationTypes,
       deposit \in AirdropDeposits :
      \E channel_id \in ChannelIds(recipient), amount \in Amounts(recipient) :
        /\ Admitted(serial, recipient)
        /\ RoomForRecord
        /\ log_airdrop(caller, recipient, channel_id, donation_type, amount, deposit)

RecordDonation(serial) ==
    \E signer \in Donators, donation_type \in DonationDonationTypes, deposit \in Deposits :
        /\ Admitted(serial, signer)
        /\ RoomForDeposit(signer, deposit)
        /\ record_donation(signer, donation_type, deposit)

SendNftReward(serial) ==
    \E signer \in Users :
        /\ Admitted(serial, signer)
        /\ RoomForFlow
        /\ send_nft_reward(signer, 0)

SendTokenReward(serial) ==
    \E signer \in Users, deposit \in FlowDeposits :
        /\ Admitted(serial, signer)
        /\ RoomForFlow
        /\ send_token_reward(signer, deposit)

MarkPayoutComplete(serial) ==
    \E caller \in Callers, donor_id \in Users :
        /\ Admitted(serial, donor_id)
        /\ mark_payout_complete(caller, donor_id)

SelectNftReward(serial) ==
    \E signer \in Selectors, channel_id \in SelectChannelIds,
       donation_type \in SelectDonationTypes :
        /\ Admitted(serial, signer)
        /\ select_nft_reward(signer, channel_id, donation_type)

OnStorageCheck ==
    \E r \in Resumptions("storage_balance_of"), ok \in BOOLEAN, text \in BalanceResults :
        on_storage_check_callback(r[1], r[2], ok, text)

OnStorageDeposit ==
    \E r \in Resumptions("storage_deposit"), ok \in BOOLEAN :
        on_storage_deposit_callback(r[1], r[2], ok)

OnNftMint ==
    \E r \in Resumptions("nft_mint") : \E ok \in Outcomes(r[1]), bytes \in MintResults :
        on_nft_mint_callback(r[1], r[2], ok, bytes)

OnTokenTransfer ==
    \E r \in Resumptions("ft_transfer") : \E ok \in Outcomes(r[1]) :
        on_token_transfer_callback(r[1], r[2], ok)

Callbacks == OnStorageCheck \/ OnStorageDeposit \/ OnNftMint \/ OnTokenTransfer

\* the host as it is: calls and callbacks of one donor interleave freely
Next ==
    \/ LogAirdrop(FALSE) \/ RecordDonation(FALSE) \/ SendNftReward(FALSE)
    \/ SendTokenReward(FALSE) \/ MarkPayoutComplete(FALSE) \/ SelectNftReward(FALSE)
    \/ Callbacks

Spec == Init /\ [][Next]_vars

\* the host of section 5
NextSerial ==
    \/ LogAirdrop(TRUE) \/ RecordDonation(TRUE) \/ SendNftReward(TRUE)
    \/ SendTokenReward(TRUE) \/ MarkPayoutComplete(TRUE) \/ SelectNftReward(TRUE)
    \/ Callbacks

SpecSerial == Init /\ [][NextSerial]_vars

\* the promise of donor id that is in flight resolves and its callback runs
Resolution(id) ==
    \/ \E call \in {c \in Methods("storage_balance_of") : c.signer = id} :
            \E ok \in BOOLEAN, text \in BalanceResults :
                on_storage_check_callback(call, 1, ok, text)
    \/ \E call \in {c \in Methods("storage_deposit") : c.signer = id} :
            \E ok \in BOOLEAN : on_storage_deposit_callback(call, 1, ok)
    \/ \E call \in {c \in Methods("nft_mint") : c.signer = id} :
            \E ok \in Outcomes(call), bytes \in MintResults :
                on_nft_mint_callback(call, 1, ok, bytes)
    \/ \E call \in {c \in Methods("ft_transfer") : c.signer = id} :
            \E ok \in Outcomes(call) : on_token_transfer_callback(call, 1, ok)

\* the host of section 5, which delivers the result of every promise it accepted
SpecSerialFair == SpecSerial /\ \A id \in Users : WF_vars(Resolution(id))

\* the admin marks the payout of id complete
MarksPaid(id) ==
    /\ Admitted(TRUE, id)
    /\ mark_payout_complete(admin, id)
    /\ last'.err = ""

\* the host of section 5 with accounts that keep calling and an admin who marks
\* every donor paid that can be marked
SpecSerialWilling ==
    /\ SpecSerial
    /\ WF_vars(NextSerial)
    /\ \A id \in Users : WF_vars(Resolution(id)) /\ SF_vars(MarksPaid(id))

(***************************************************************************)
(* The listing views.  u64 and usize are modelled with U64Bits and         *)
(* UsizeBits bits; usize is narrower than u64 on the wasm32 target the     *)
(* contract is built for and as wide as u64 on the host the tests run on.  *)
(* An overflowing u64 addition panics in a build with overflow checks and  *)
(* wraps in a build without them.                                          *)
(***************************************************************************)
U64Bits == 10
UsizeBits == 8
MaxLimit == 100

U64Modulus == 2 ^ U64Bits
UsizeModuli == {2 ^ UsizeBits, U64Modulus}

Starts == {0, 1, 2, 2 ^ UsizeBits, U64Modulus - 1}
Limits == {0, 1, 2, MaxLimit, MaxLimit + 1}
ViewDonationTypes == {Direct, Campaign("c1")}

\* Iterator::skip and Iterator::take
Skip(seq, n) ==
    IF n >= Len(seq) THEN <<>> ELSE [i \in 1..(Len(seq) - n) |-> seq[n + i]]

Take(seq, n) == IF n >= Len(seq) THEN seq ELSE [i \in 1..n |-> seq[i]]

\* the body shared by the four listing views: items are the qualifying items
Paginated(op, items, donation_type, start, limit, usize, overflow_checks) ==
    LET view == [op |-> op, log |-> "", start |-> start, limit |-> limit,
                 donation_type |-> donation_type]
        failed(err) == view @@ [err |-> err, page |-> <<>>, has_more |-> FALSE]
    IN  IF ~(limit > 0 /\ limit <= MaxLimit)
        THEN failed("Limit must be between 1 and 100")
        ELSE IF overflow_checks /\ start + limit >= U64Modulus
        THEN failed("attempt to add with overflow")
        ELSE view @@ [err |-> "",
                      page |-> Take(Skip(items, start % usize), limit % usize),
                      has_more |-> Len(items) > (start + limit) % U64Modulus]

Viewed(result) ==
    /\ last' = result
    /\ UNCHANGED <<donors, airdrop_records, total_distributed, pending, transferred, minted>>

DonorsOf(donation_type) ==
    SelectSeq(donors, LAMBDA donor : Contains(donor.donation_types, donation_type))

RecordsOf(donation_type) ==
    SelectSeq(airdrop_records, LAMBDA record : record.donation_type = donation_type)

get_donors(start, limit, usize, overflow_checks) ==
    Viewed(Paginated("get_donors", donors, Direct, start, limit, usize, overflow_checks))

get_donors_by_donation_type(donation_type, start, limit, usize, overflow_checks) ==
    Viewed(Paginated("get_donors_by_donation_type", DonorsOf(donation_type), donation_type,
                     start, limit, usize, overflow_checks))

get_airdrop_records(start, limit, usize, overflow_checks) ==
    Viewed(Paginated("get_airdrop_records", airdrop_records, Direct, start, limit, usize,
                     overflow_checks))

get_airdrop_records_by_donation_type(donation_type, start, limit, usize, overflow_checks) ==
    Viewed(Paginated("get_airdrop_records_by_donation_type", RecordsOf(donation_type),
                     donation_type, start, limit, usize, overflow_checks))

\* the ledger the views are called on: airdrops of two donation types
LogAirdropForViews ==
    \E recipient \in Users, donation_type \in ViewDonationTypes :
      \E channel_id \in ChannelIds(recipient), amount \in Amounts(recipient) :
        /\ RoomForRecord
        /\ log_airdrop(admin, recipient, channel_id, donation_type, amount, 0)

GetDonors ==
    \E start \in Starts, limit \in Limits, usize \in UsizeModuli, overflow_checks \in BOOLEAN :
        get_donors(start, limit, usize, overflow_checks)

GetDonorsByDonationType ==
    \E start \in Starts, limit \in Limits, usize \in UsizeModuli, overflow_checks \in BOOLEAN :
      \E donation_type \in ViewDonationTypes :
        get_donors_by_donation_type(donation_type, start, limit, usize, overflow_checks)

GetAirdropRecords ==
    \E start \in Starts, limit \in Limits, usize \in UsizeModuli, overflow_checks \in BOOLEAN :
        get_airdrop_records(start, limit, usize, overflow_checks)

GetAirdropRecordsByDonationType ==
    \E start \in Starts, limit \in Limits, usize \in UsizeModuli, overflow_checks \in BOOLEAN :
      \E donation_type \in ViewDonationTypes :
        get_airdrop_records_by_donation_type(donation_type, start, limit, usize,
                                             overflow_checks)

NextViews ==
    \/ LogAirdropForViews
    \/ GetDonors \/ GetDonorsByDonationType
    \/ GetAirdropRecords \/ GetAirdropRecordsByDonationType

SpecViews == Init /\ [][NextViews]_vars

(***************************************************************************)
(* Properties                                                              *)
(***************************************************************************)
RECURSIVE AmountFor(_, _)
\* the sum of amount over the records whose recipient is id
AmountFor(records, id) ==
    IF records = <<>> THEN 0
    ELSE (IF Head(records).recipient = id THEN Head(records).amount ELSE 0)
            + AmountFor(Tail(records), id)

Paid(ds, id) == HasDonor(ds, id) /\ GetDonor(ds, id).paid

Accrued(id) == GetOrNew(donors, id).airdrop_amount

\* a promise of this method and signer resolves with exactly one result
ResolvesFor(method, id) == {call \in Methods(method) : call.signer = id}

\* C1: under the serialization of section 5, the amounts of the ft_transfer calls
\* that succeeded for a donor never add up to more than the donor's airdrop_amount.
C1_NoRewardPaidTwice == \A id \in Users : transferred[id] <= Accrued(id)

\* C2: for a donor whose paid flag is true, every send_nft_reward and every
\* send_token_reward panics with "Payout already completed", schedules no promise
\* and leaves the ledger as it was.
C2_IdempotentSettlement ==
    [][\A id \in Users : Paid(donors, id) =>
          /\ send_nft_reward(id, 0) =>
                /\ last'.err = "Payout already completed"
                /\ UNCHANGED <<ledger, pending>>
          /\ \A deposit \in FlowDeposits : send_token_reward(id, deposit) =>
                /\ last'.err = "Payout already completed"
                /\ UNCHANGED <<ledger, pending>>]_vars

\* a paid donor has just been turned away by send_token_reward
C2_Witness ==
    /\ last.op = "send_token_reward"
    /\ last.err = "Payout already completed"
    /\ \E id \in Users : Paid(donors, id)

\* C3: in every reachable state every donor's airdrop_amount equals the sum of
\* amount over the airdrop records whose recipient is that donor.
C3_Conservation ==
    \A id \in Users : Accrued(id) = AmountFor(airdrop_records, id)

\* a donor credited twice, paid, and still in balance with its two records
C3_Witness ==
    /\ Len(airdrop_records) = 2
    /\ \E id \in Users : /\ Paid(donors, id)
                         /\ Accrued(id) = 2
                         /\ \A i \in 1..2 : airdrop_records[i].recipient = id

\* C4: no step takes a donor's paid flag from true back to false.
C4_PaidMonotonic ==
    [][\A id \in Users : Paid(donors, id) => Paid(donors', id)]_vars

\* log_airdrop has rewritten the record of a donor that was already paid
C4_Witness ==
    /\ last.op = "log_airdrop"
    /\ last.err = ""
    /\ Paid(donors, airdrop_records[Len(airdrop_records)].recipient)

\* C5: no step removes or reorders an airdrop record, and no step takes a record's
\* paid flag from true back to false.
C5_RecordsAppendOnly ==
    [][/\ Len(airdrop_records') >= Len(airdrop_records)
       /\ \A i \in 1..Len(airdrop_records) :
            /\ airdrop_records'[i].recipient = airdrop_records[i].recipient
            /\ airdrop_records'[i].amount = airdrop_records[i].amount
            /\ airdrop_records'[i].donation_type = airdrop_records[i].donation_type
            /\ airdrop_records'[i].reward_type.tag = airdrop_records[i].reward_type.tag
            /\ airdrop_records[i].paid => airdrop_records'[i].paid]_vars

\* a record has been appended behind a record that is already paid
C5_Witness ==
    /\ last.op = "log_airdrop"
    /\ last.err = ""
    /\ Len(airdrop_records) = 2
    /\ airdrop_records[1].paid

UnpaidCollectible(records, id) ==
    {i \in 1..Len(records) : /\ records[i].recipient = id
                             /\ records[i].reward_type.tag = "NFT"
                             /\ records[i].paid = FALSE}

\* C6: when on_nft_mint_callback resumes with a successful result and the donor has
\* an unpaid NFT record, exactly the first such record changes: it takes the minted
\* token id and becomes paid; the donor gets an NFT reward type with that token id
\* and becomes paid; every other record stays as it was.
C6_IssuanceSettlement ==
    [][\A id \in Users, bytes \in MintResults : \A call \in ResolvesFor("nft_mint", id) :
          (/\ on_nft_mint_callback(call, 1, TRUE, bytes)
           /\ UnpaidCollectible(airdrop_records, id) # {}) =>
            LET first == Min(UnpaidCollectible(airdrop_records, id))
                item_id == FromUtf8Lossy(bytes)
            IN  /\ Len(airdrop_records') = Len(airdrop_records)
                /\ \A i \in 1..Len(airdrop_records) :
                        i # first => airdrop_records'[i] = airdrop_records[i]
                /\ airdrop_records'[first].paid
                /\ airdrop_records'[first].reward_type.tag = "NFT"
                /\ airdrop_records'[first].reward_type.token_id = item_id
                /\ airdrop_records'[first].recipient = id
                /\ airdrop_records'[first].amount = airdrop_records[first].amount
                /\ Paid(donors', id)
                /\ \E k \in 1..Len(GetDonor(donors', id).reward_types) :
                        /\ GetDonor(donors', id).reward_types[k].tag = "NFT"
                        /\ GetDonor(donors', id).reward_types[k].token_id = item_id
                /\ \A other \in Users \ {id} :
                        HasDonor(donors, other) => GetDonor(donors', other) = GetDonor(donors, other)]_vars

\* a mint has settled the record at position 2, the donor's first unpaid NFT record
C6_Witness ==
    /\ last.op = "on_nft_mint_callback"
    /\ last.log = "Successfully updated airdrop record"
    /\ Len(airdrop_records) = 2
    /\ ~airdrop_records[1].paid
    /\ airdrop_records[2].paid
    /\ airdrop_records[2].reward_type.token_id = <<116, 65533>>
    /\ Paid(donors, airdrop_records[2].recipient)

UnpaidFungible(records, id, amount) ==
    {i \in 1..Len(records) : /\ records[i].recipient = id
                             /\ records[i].reward_type.tag = "Token"
                             /\ records[i].amount = amount
                             /\ records[i].paid = FALSE}

\* C7: when on_token_transfer_callback resumes with a successful result for
\* (donor, amount) and some unpaid Token record of that donor has that amount, the
\* first such record, and no other, becomes paid, and the donor becomes paid.
C7_OldestUnpaidTransfer ==
    [][\A id \in Users : \A call \in ResolvesFor("ft_transfer", id) :
          (/\ on_token_transfer_callback(call, 1, TRUE)
           /\ UnpaidFungible(airdrop_records, id, call.amount) # {}) =>
            LET first == Min(UnpaidFungible(airdrop_records, id, call.amount))
            IN  /\ airdrop_records' = [airdrop_records EXCEPT ![first].paid = TRUE]
                /\ Paid(donors', id)]_vars

\* two Token records A, B of one donor and one amount: a transfer has settled A, not B
C7_Witness ==
    /\ last.op = "on_token_transfer_callback"
    /\ last.log = "Successfully transferred"
    /\ Len(airdrop_records) = 2
    /\ airdrop_records[1].recipient = airdrop_records[2].recipient
    /\ airdrop_records[1].amount = airdrop_records[2].amount
    /\ airdrop_records[1].reward_type = Token
    /\ airdrop_records[2].reward_type = Token
    /\ airdrop_records[1].paid
    /\ ~airdrop_records[2].paid

\* pending' is pending with one more call of this method for this signer
Issues(method, id) ==
    \E call \in BagToSet(pending') :
        /\ call.method = method
        /\ call.signer = id
        /\ pending' = pending (+) SetToBag({call})

\* C8: send_nft_reward schedules nft_mint exactly when the caller is a donor, is not
\* paid and holds an NFT reward type; otherwise it panics, schedules nothing and
\* leaves the ledger as it was.
C8_IssuanceEntryGuard ==
    [][\A id \in Users : send_nft_reward(id, 0) =>
          IF /\ HasDonor(donors, id)
             /\ ~GetDonor(donors, id).paid
             /\ \E k \in 1..Len(GetDonor(donors, id).reward_types) :
                    GetDonor(donors, id).reward_types[k].tag = "NFT"
          THEN /\ Issues("nft_mint", id)
               /\ last'.err = ""
               /\ UNCHANGED ledger
          ELSE /\ last'.err # ""
               /\ UNCHANGED <<ledger, pending>>]_vars

\* send_nft_reward has scheduled nft_mint
C8_Witness ==
    /\ last.op = "send_nft_reward"
    /\ last.err = ""
    /\ \E call \in BagToSet(pending) : call.method = "nft_mint"

\* C9: send_token_reward schedules storage_balance_of exactly when the caller is a
\* donor, is not paid, holds the Token reward type and has airdrop_amount > 0;
\* otherwise it panics, schedules nothing and leaves the ledger as it was.
C9_TransferEntryGuard ==
    [][\A id \in Users, deposit \in FlowDeposits : send_token_reward(id, deposit) =>
          IF /\ HasDonor(donors, id)
             /\ ~GetDonor(donors, id).paid
             /\ \E k \in 1..Len(GetDonor(donors, id).reward_types) :
                    GetDonor(donors, id).reward_types[k].tag = "Token"
             /\ GetDonor(donors, id).airdrop_amount > 0
          THEN /\ Issues("storage_balance_of", id)
               /\ last'.err = ""
               /\ UNCHANGED ledger
          ELSE /\ last'.err # ""
               /\ UNCHANGED <<ledger, pending>>]_vars

\* send_token_reward has scheduled storage_balance_of
C9_Witness ==
    /\ last.op = "send_token_reward"
    /\ last.err = ""
    /\ \E call \in BagToSet(pending) : call.method = "storage_balance_of"

\* what a failed promise leaves behind: no donor and no record changed, no further
\* call scheduled, the donor still unpaid
FailureLeaves(call) ==
    /\ UNCHANGED <<donors, airdrop_records>>
    /\ pending' = pending (-) SetToBag({call})
    /\ ~Paid(donors', call.signer)

Chains(call, method) ==
    \E next \in BagToSet(pending') :
        /\ next.method = method
        /\ next.signer = call.signer
        /\ pending' = (pending (-) SetToBag({call})) (+) SetToBag({next})

CountOf(bag, method) ==
    BagCardinality([call \in {c \in BagToSet(bag) : c.method = method} |-> bag[call]])

\* C12: ft_transfer is only ever scheduled in place of a storage_balance_of that
\* resolved successfully with a non-null balance, or in place of a storage_deposit
\* that resolved successfully; storage_deposit is only ever scheduled in place of a
\* storage_balance_of that resolved successfully with null; the callback of
\* ft_transfer schedules nothing.  So a flow holds one promise at a time, in the order
\* storage_balance_of, storage_deposit (if unregistered), ft_transfer, and schedules
\* storage_deposit and ft_transfer at most once each.
C12_TransferChainOrder ==
    [][/\ CountOf(pending', "ft_transfer") > CountOf(pending, "ft_transfer") =>
            \E call \in BagToSet(pending) :
                /\ Chains(call, "ft_transfer")
                /\ \A next \in BagToSet(pending') :
                        next.method = "ft_transfer" /\ next.signer = call.signer
                            /\ CopiesIn(next, pending') > CopiesIn(next, pending)
                        => next.amount = call.amount
                /\ \/ /\ call.method = "storage_balance_of"
                      /\ \E text \in BalanceResults \ {"null"} :
                            on_storage_check_callback(call, 1, TRUE, text)
                   \/ /\ call.method = "storage_deposit"
                      /\ on_storage_deposit_callback(call, 1, TRUE)
       /\ CountOf(pending', "storage_deposit") > CountOf(pending, "storage_deposit") =>
            \E call \in Methods("storage_balance_of") :
                /\ Chains(call, "storage_deposit")
                /\ on_storage_check_callback(call, 1, TRUE, "null")
       /\ CountOf(pending', "storage_balance_of") > CountOf(pending, "storage_balance_of") =>
            /\ last'.op = "send_token_reward"
            /\ BagCardinality(pending') = BagCardinality(pending) + 1
       /\ \A call \in Methods("ft_transfer"), ok \in BOOLEAN :
            on_token_transfer_callback(call, 1, ok) => pending' = pending (-) SetToBag({call})]_vars

\* an unregistered account has been registered and its ft_transfer is now in flight
C12_Witness ==
    /\ last.op = "on_storage_deposit_callback"
    /\ last.err = ""
    /\ CountOf(pending, "ft_transfer") = 1
    /\ CountOf(pending, "storage_deposit") = 0

\* the calls a flow can still make, its present one included
Rank(call) ==
    CASE call.method = "storage_balance_of" -> 3
      [] call.method = "storage_deposit" -> 2
      [] OTHER -> 1

\* the calls a step schedules and the calls it resolves
Issued == {c \in BagToSet(pending') : CopiesIn(c, pending') > CopiesIn(c, pending)}

Resolved == {c \in BagToSet(pending) : CopiesIn(c, pending) > CopiesIn(c, pending')}

\* C13: with every promise in flight eventually resolved, every flow a donor has
\* started ends; a callback schedules at most one call, for the same donor and
\* strictly nearer the end of the chain storage_balance_of, storage_deposit,
\* ft_transfer than the call it resumed from, so a token flow makes at most three
\* calls, an NFT flow exactly one (nft_mint), and no call is made twice.
C13_EveryFlowTerminates ==
    /\ [][/\ Cardinality(Issued) <= 1
          /\ Cardinality(Resolved) <= 1
          /\ BagCardinality(pending') - BagCardinality(pending)
                = Cardinality(Issued) - Cardinality(Resolved)
          /\ \A c \in Resolved, n \in Issued : n.signer = c.signer /\ Rank(n) < Rank(c)
          /\ Resolved = {} =>
                \A n \in Issued : n.method \in {"storage_balance_of", "nft_mint"}]_vars
    /\ \A id \in Users : InFlight(id) ~> ~InFlight(id)

\* a token flow has come to its end through its last callback
C13_Witness ==
    /\ last.op = "on_token_transfer_callback"
    /\ last.log = "Successfully transferred"
    /\ pending = EmptyBag

\* C14: each of the four callbacks, run with promise_results_count different from
\* one, changes no donor, no airdrop record and not the total, and schedules no call.
C14_ProtocolViolation ==
    [][\/ UNCHANGED <<ledger, pending>>
       \/ \A count \in ResultCounts \ {1}, ok \in BOOLEAN :
            /\ \A call \in BareCalls("storage_balance_of"), text \in BalanceResults :
                    ~on_storage_check_callback(call, count, ok, text)
            /\ \A call \in BareCalls("storage_deposit") :
                    ~on_storage_deposit_callback(call, count, ok)
            /\ \A call \in BareCalls("nft_mint"), bytes \in MintResults :
                    ~on_nft_mint_callback(call, count, ok, bytes)
            /\ \A call \in BareCalls("ft_transfer") :
                    ~on_token_transfer_callback(call, count, ok)]_vars

\* on_token_transfer_callback has run with a wrong count for a donor with an unpaid
\* Token record of the amount it was called with
C14_Witness ==
    /\ last.op = "on_token_transfer_callback"
    /\ last.log = "Unexpected number of promise results"
    /\ \E call \in BareCalls("ft_transfer") :
            UnpaidFungible(airdrop_records, call.signer, call.amount) # {}

\* C15: when nft_mint or ft_transfer resolves successfully and no record matches the
\* settlement rule (NFT: same recipient, NFT reward type, unpaid; token: same
\* recipient, Token reward type, same amount, unpaid), the callback returns normally
\* and leaves every donor, every record and the total as they were.
C15_NoMatchChangesNothing ==
    [][\A id \in Users :
          /\ \A call \in ResolvesFor("nft_mint", id), bytes \in MintResults :
                (/\ UnpaidCollectible(airdrop_records, id) = {}
                 /\ on_nft_mint_callback(call, 1, TRUE, bytes))
                    => last'.err = "" /\ UNCHANGED ledger
          /\ \A call \in ResolvesFor("ft_transfer", id) :
                (/\ UnpaidFungible(airdrop_records, id, call.amount) = {}
                 /\ on_token_transfer_callback(call, 1, TRUE))
                    => last'.err = "" /\ UNCHANGED ledger]_vars

\* a mint has succeeded for a donor who holds an unpaid record, but no unpaid NFT record
C15_Witness ==
    /\ last.op = "on_nft_mint_callback"
    /\ last.log = "No matching airdrop record found"
    /\ \E id \in Users :
        /\ minted[id] = 1
        /\ ~Paid(donors, id)
        /\ \E i \in 1..Len(airdrop_records) :
                airdrop_records[i].recipient = id /\ ~airdrop_records[i].paid

UnpaidOf(records, id) ==
    {i \in 1..Len(records) : records[i].recipient = id /\ records[i].paid = FALSE}

\* C16: mark_payout_complete by the admin for an existing unpaid donor sets the
\* donor's paid flag and nothing else of the donor, marks paid the donor's first
\* unpaid record of whatever reward type if there is one, leaves every other record
\* and the total unchanged and schedules no call; for a donor who is already paid it
\* panics with "Payout already completed" and changes nothing.
C16_AdminOverride ==
    [][\A id \in Users :
          (HasDonor(donors, id) /\ mark_payout_complete(admin, id)) =>
            IF GetDonor(donors, id).paid
            THEN /\ last'.err = "Payout already completed"
                 /\ UNCHANGED <<ledger, pending>>
            ELSE /\ last'.err = ""
                 /\ Len(donors') = Len(donors)
                 /\ \A k \in 1..Len(donors) :
                        donors'[k] = IF donors[k].wallet_id = id
                                     THEN [donors[k] EXCEPT !.paid = TRUE]
                                     ELSE donors[k]
                 /\ airdrop_records' =
                        IF UnpaidOf(airdrop_records, id) = {} THEN airdrop_records
                        ELSE [airdrop_records EXCEPT
                                ![Min(UnpaidOf(airdrop_records, id))].paid = TRUE]
                 /\ UNCHANGED <<total_distributed, pending>>]_vars

\* the admin has marked a donor with two unpaid records: the first is paid, the second not
C16_Witness ==
    /\ last.op = "mark_payout_complete"
    /\ last.err = ""
    /\ Len(airdrop_records) = 2
    /\ airdrop_records[1].recipient = airdrop_records[2].recipient
    /\ airdrop_records[1].paid
    /\ ~airdrop_records[2].paid
    /\ Paid(donors, airdrop_records[1].recipient)

\* the items a listing view pages through
Qualifying(view) ==
    CASE view.op = "get_donors" -> donors
      [] view.op = "get_donors_by_donation_type" ->
            SelectSeq(donors, LAMBDA d :
                \E k \in 1..Len(d.donation_types) : d.donation_types[k] = view.donation_type)
      [] view.op = "get_airdrop_records" -> airdrop_records
      [] OTHER ->
            SelectSeq(airdrop_records, LAMBDA r : r.donation_type = view.donation_type)

ListingOps ==
    {"get_donors", "get_donors_by_donation_type", "get_airdrop_records",
     "get_airdrop_records_by_donation_type"}

\* C17: a listing view called with a limit in 1..100 and any start returns, of the N
\* qualifying items, the min(limit, max(0, N - start)) items from offset start on, in
\* order, and has_more = (N > start + limit); with limit 0 or above 100 it is rejected.
C17_PaginationCorrect ==
    last.op \in ListingOps =>
        LET items == Qualifying(last)
            N == Len(items)
            rest == IF N - last.start > 0 THEN N - last.start ELSE 0
            size == IF last.limit < rest THEN last.limit ELSE rest
        IN  IF last.limit = 0 \/ last.limit > 100
            THEN last.err # ""
            ELSE /\ last.err = ""
                 /\ last.page = [i \in 1..size |-> items[last.start + i]]
                 /\ last.has_more = (N > last.start + last.limit)

\* the record a successful log_airdrop has just pushed
Logged == airdrop_records'[Len(airdrop_records')]

\* a log_airdrop with a non-empty channel_id has returned
LoggedNFT ==
    /\ last'.op = "log_airdrop"
    /\ last'.err = ""
    /\ Logged.reward_type.tag = "NFT"

HoldsToken(donor) ==
    \E k \in 1..Len(donor.reward_types) : donor.reward_types[k].tag = "Token"

HoldsNFT(donor, channel_id) ==
    \E k \in 1..Len(donor.reward_types) :
        donor.reward_types[k] = [tag |-> "NFT", channel_id |-> channel_id, token_id |-> <<>>]

\* C18, as the spec states it: log_airdrop with a non-empty channel_id leaves the
\* recipient with an NFT reward type for that channel with empty token id and also
\* with the Token reward type, even on the recipient's first airdrop.
C18_DualAdd ==
    [][LoggedNFT =>
          /\ HoldsNFT(GetDonor(donors', Logged.recipient), Logged.reward_type.channel_id)
          /\ HoldsToken(GetDonor(donors', Logged.recipient))]_vars

\* C18, as the code has it: log_airdrop with a non-empty channel_id leaves the
\* recipient with an NFT reward type for that channel with empty token id, and adds
\* no Token reward type: the recipient holds Token afterwards exactly if it held it
\* before, so not after a first airdrop.
C18_SingleAdd ==
    [][LoggedNFT =>
          /\ HoldsNFT(GetDonor(donors', Logged.recipient), Logged.reward_type.channel_id)
          /\ HoldsToken(GetDonor(donors', Logged.recipient))
                <=> (/\ HasDonor(donors, Logged.recipient)
                     /\ HoldsToken(GetDonor(donors, Logged.recipient)))]_vars

\* a donor's first airdrop came with a channel: the donor holds the NFT reward type only
C18_Witness ==
    /\ last.op = "log_airdrop"
    /\ last.err = ""
    /\ Len(airdrop_records) = 1
    /\ airdrop_records[1].reward_type.tag = "NFT"
    /\ GetDonor(donors, airdrop_records[1].recipient).reward_types
            = <<[tag |-> "NFT", channel_id |-> "ch1", token_id |-> <<>>]>>

RECURSIVE TotalAmount(_)
\* the sum of amount over all records
TotalAmount(records) ==
    IF records = <<>> THEN 0 ELSE Head(records).amount + TotalAmount(Tail(records))

\* C19: a log_airdrop(recipient, channel_id, donation_type, amount) that returns, with
\* deposit d attached, pushes exactly one record at the end (this recipient, this
\* amount, unpaid, reward type Token exactly if channel_id is empty), adds amount to
\* the recipient's airdrop_amount and d to its donation_amount, adds amount to
\* total_distributed and leaves the recipient's paid flag and every earlier record as
\* they were; and total_distributed is always the sum of amount over all records.
C19_LogAirdropEffect ==
    /\ [](total_distributed = TotalAmount(airdrop_records))
    /\ [][\/ ~(last'.op = "log_airdrop" /\ last'.err = "")
          \/ \A recipient \in Users, donation_type \in AirdropDonationTypes,
                deposit \in AirdropDeposits :
               \A channel_id \in ChannelIds(recipient), amount \in Amounts(recipient) :
                 log_airdrop(admin, recipient, channel_id, donation_type, amount, deposit) =>
                    LET old == GetOrNew(donors, recipient)
                        new == GetDonor(donors', recipient)
                        n == Len(airdrop_records)
                    IN  /\ Len(airdrop_records') = n + 1
                        /\ \A i \in 1..n : airdrop_records'[i] = airdrop_records[i]
                        /\ airdrop_records'[n + 1].recipient = recipient
                        /\ airdrop_records'[n + 1].amount = amount
                        /\ airdrop_records'[n + 1].paid = FALSE
                        /\ airdrop_records'[n + 1].reward_type.tag = "Token" <=> channel_id = ""
                        /\ new.airdrop_amount = old.airdrop_amount + amount
                        /\ new.donation_amount = old.donation_amount + deposit
                        /\ new.paid = old.paid
                        /\ total_distributed' = total_distributed + amount]_vars

\* a second airdrop to a donor who is already paid has been logged
C19_Witness ==
    /\ last.op = "log_airdrop"
    /\ last.err = ""
    /\ Len(airdrop_records) = 2
    /\ airdrop_records[1].recipient = airdrop_records[2].recipient
    /\ airdrop_records[2].amount = 1
    /\ total_distributed = 2
    /\ GetDonor(donors, airdrop_records[2].recipient).paid
    /\ GetDonor(donors, airdrop_records[2].recipient).donation_amount
            = 2 * storage_deposit_amount

\* seq with x at its end unless x is in it already
WithOnce(seq, x) == IF \E k \in 1..Len(seq) : seq[k] = x THEN seq ELSE seq \o <<x>>

\* C20: select_nft_reward(channel_id, donation_type) returns only for a caller who is
\* a donor, holds the Token reward type and is not paid; it then adds the NFT reward
\* type for channel_id with empty token id and the donation type, each unless already
\* there, and changes nothing else: not donation_amount, airdrop_amount or paid, no
\* other donor, no record, not the total, and it schedules nothing.  In every other
\* case, a caller who is no donor among them, it panics and changes nothing.
C20_SelectNftReward ==
    [][\/ ~(last'.op = "select_nft_reward")
       \/ \A signer \in Users, channel_id \in SelectChannelIds,
             donation_type \in SelectDonationTypes :
            select_nft_reward(signer, channel_id, donation_type) =>
                IF last'.err = ""
                THEN /\ HasDonor(donors, signer)
                     /\ HoldsToken(GetDonor(donors, signer))
                     /\ ~GetDonor(donors, signer).paid
                     /\ Len(donors') = Len(donors)
                     /\ \A k \in 1..Len(donors) :
                            donors'[k] =
                                IF donors[k].wallet_id = signer
                                THEN [donors[k] EXCEPT
                                        !.reward_types = WithOnce(@,
                                            [tag |-> "NFT", channel_id |-> channel_id,
                                             token_id |-> <<>>]),
                                        !.donation_types = WithOnce(@, donation_type)]
                                ELSE donors[k]
                     /\ UNCHANGED <<airdrop_records, total_distributed, pending>>
                ELSE /\ UNCHANGED <<ledger, pending>>
                     /\ ~HasDonor(donors, signer) => last'.err = "Donor not found"]_vars

\* a donor with a Token airdrop has selected an NFT reward
C20_Witness ==
    /\ last.op = "select_nft_reward"
    /\ last.err = ""
    /\ \E id \in Users :
        /\ HasDonor(donors, id)
        /\ HoldsToken(GetDonor(donors, id))
        /\ HoldsNFT(GetDonor(donors, id), "ch2")
        /\ GetDonor(donors, id).donation_types[Len(GetDonor(donors, id).donation_types)]
                = Campaign("c1")
        /\ ~GetDonor(donors, id).paid

EntryOps ==
    {"log_airdrop", "record_donation", "send_nft_reward", "send_token_reward",
     "mark_payout_complete", "select_nft_reward"}

\* a donation type the validation of the entry points refuses
Refused(donation_type) ==
    \/ donation_type.tag = "Campaign" /\ Len(donation_type.id) > 64
    \/ donation_type.tag = "Project" /\ donation_type.id = ""
    \/ donation_type.tag = "Pot" /\ Len(donation_type.id) < 2

\* C21: a call of an entry point that is refused (a campaign id longer than 64, an
\* empty project id, a malformed pot id, no deposit on record_donation, a caller of
\* log_airdrop or mark_payout_complete who is not the admin, or a failed assert on
\* the donor's state) panics, leaves every donor, every record and the total as they
\* were and schedules no call.
C21_FailFast ==
    [][/\ (last'.op \in EntryOps /\ last'.err # "") => UNCHANGED <<ledger, pending>>
       /\ \/ ~(last'.op = "log_airdrop")
          \/ \A caller \in Callers, recipient \in Users,
                donation_type \in AirdropDonationTypes, deposit \in AirdropDeposits :
               \A channel_id \in ChannelIds(recipient), amount \in Amounts(recipient) :
                 (/\ caller # admin \/ Refused(donation_type)
                  /\ log_airdrop(caller, recipient, channel_id, donation_type, amount, deposit))
                    => last'.err # ""
       /\ \/ ~(last'.op = "record_donation")
          \/ \A signer \in Donators, donation_type \in DonationDonationTypes,
                deposit \in Deposits :
                 (/\ deposit = 0 \/ Refused(donation_type)
                  /\ record_donation(signer, donation_type, deposit))
                    => last'.err # ""
       /\ \/ ~(last'.op = "mark_payout_complete")
          \/ \A caller \in Callers \ {admin}, donor_id \in Users :
                 mark_payout_complete(caller, donor_id) => last'.err # ""
       /\ \/ ~(last'.op = "select_nft_reward")
          \/ \A signer \in Selectors, channel_id \in SelectChannelIds,
                donation_type \in SelectDonationTypes :
                 (/\ Refused(donation_type)
                  /\ select_nft_reward(signer, channel_id, donation_type))
                    => last'.err # ""]_vars

\* a campaign id of 65 characters has been refused on a ledger that holds a record
C21_Witness ==
    /\ last.op = "log_airdrop"
    /\ last.err = "Campaign ID must be 64 characters or less"
    /\ Len(airdrop_records) >= 1
    /\ total_distributed >= 1

\* the positions of reward_types that hold an NFT entry for channel_id
ChannelEntries(reward_types, channel_id) ==
    {i \in 1..Len(reward_types) : /\ reward_types[i].tag = "NFT"
                                  /\ reward_types[i].channel_id = channel_id}

\* C22: in every reachable state the reward_types of every donor hold at most one
\* Token entry and at most one NFT entry for each channel_id, also after a mint has
\* written the token_id of a channel and the channel is named again.
C22_OneEntryPerChannel ==
    \A i \in 1..Len(donors) :
        LET reward_types == donors[i].reward_types
        IN  /\ Cardinality({j \in 1..Len(reward_types) : reward_types[j] = Token}) <= 1
            /\ \A j \in 1..Len(reward_types) :
                  reward_types[j].tag = "NFT" =>
                      Cardinality(ChannelEntries(reward_types, reward_types[j].channel_id)) <= 1

\* C23: with one flow per donor at a time, once nft_mint has succeeded for a donor
\* the donor is paid, and every later send_nft_reward of that donor panics and
\* schedules nothing; this holds also for a donor whose NFT reward type comes from
\* select_nft_reward and who has no NFT record.
C23_IssuedOnce ==
    /\ [](\A id \in Users : minted[id] >= 1 => Paid(donors, id))
    /\ [][\A id \in Users :
             (minted[id] >= 1 /\ send_nft_reward(id, 0)) =>
                 /\ last'.err # ""
                 /\ UNCHANGED <<ledger, pending>>]_vars

\* C24: the record that a successful on_nft_mint_callback settles changes only in
\* its token_id and its paid flag; its channel_id stays as it was and is the
\* channel_id nft_mint was called for, also for a donor holding NFT reward types
\* for several channels.
C24_SettledChannelKept ==
    [][\A id \in Users, bytes \in MintResults : \A call \in ResolvesFor("nft_mint", id) :
          (/\ on_nft_mint_callback(call, 1, TRUE, bytes)
           /\ UnpaidCollectible(airdrop_records, id) # {}) =>
            LET first == Min(UnpaidCollectible(airdrop_records, id))
            IN  /\ airdrop_records'[first].reward_type.channel_id =
                       airdrop_records[first].reward_type.channel_id
                /\ airdrop_records'[first].reward_type.channel_id = call.channel_id
                /\ airdrop_records'[first] =
                       [airdrop_records[first] EXCEPT
                           !.paid = TRUE,
                           !.reward_type.token_id = FromUtf8Lossy(bytes)]]_vars

\* the records of id that are paid
PaidRecords(records, id) ==
    {i \in 1..Len(records) : records[i].recipient = id /\ records[i].paid}

\* an ft_transfer or an nft_mint for id succeeds in this step
PaysOut(id) == transferred'[id] > transferred[id] \/ minted'[id] > minted[id]

\* C25: without any serialization of the calls, in every interleaving of the entry
\* points, mark_payout_complete and the callbacks, at most one ft_transfer or
\* nft_mint succeeds for a donor and at most one record of a donor becomes paid.
C25_OnePayoutAnyInterleaving ==
    /\ [](\A id \in Users : Cardinality(PaidRecords(airdrop_records, id)) <= 1)
    /\ [][\A id \in Users : PaysOut(id) => transferred[id] = 0 /\ minted[id] = 0]_vars

\* the records whose recipient is id, in the order of airdrop_records
RecordsFor(records, id) == SelectSeq(records, LAMBDA record : record.recipient = id)

\* the donors whose Donor entry or whose records differ after this step
Touched ==
    {id \in Users : \/ HasDonor(donors', id) # HasDonor(donors, id)
                    \/ GetOrNew(donors', id) # GetOrNew(donors, id)
                    \/ RecordsFor(airdrop_records', id) # RecordsFor(airdrop_records, id)}

C27_PaidRecordsAgree ==
    \A id \in Users :
        /\ PaidRecords(airdrop_records, id) # {} => Paid(donors, id)
        /\ Cardinality(PaidRecords(airdrop_records, id)) <= 1

\* a paid donor with one paid record, followed by a record that is not paid
C27_Witness ==
    /\ Paid(donors, "alice")
    /\ Len(RecordsFor(airdrop_records, "alice")) = 2
    /\ RecordsFor(airdrop_records, "alice")[1].paid
    /\ ~RecordsFor(airdrop_records, "alice")[2].paid
    /\ pending = EmptyBag

\* the record at position i exists and its paid flag is as given
RecordIs(i, paid) == Len(airdrop_records) >= i /\ airdrop_records[i].paid = paid

\* C28: from every reachable state with a record that is not paid, some sequence of
\* calls, successful results and mark_payout_complete calls makes that record paid;
\* with an admin who marks every donor that can be marked, every record that is not
\* paid becomes paid, also a record logged for a donor who is paid already and the
\* second of two records of one donor.
C28_EveryRecordPayable ==
    \A i \in 1..MaxRecords : RecordIs(i, FALSE) ~> RecordIs(i, TRUE)

====
